---- MODULE Spec2Model ----
(***************************************************************************)
(* Model of app.py, the VAXTRACK vaccination dashboard: the synthetic data *)
(* generator, its two caches (st.cache_data and st.session_state), the     *)
(* sidebar filters and the pages that derive values from the filtered      *)
(* table.                                                                  *)
(*                                                                         *)
(* Units.  Percentages are held in tenths of a percent (95 is 950), so the *)
(* trend 0.1 * days_from_start is the integer days_from_start.  A mean or  *)
(* a forecast value is Float(h), h in hundredths of the column's unit (for *)
(* a percentage: thousandths of a percent), rounded down.  Instants are    *)
(* seconds since 1970-01-01 00:00:00; a calendar date is a day number      *)
(* (instant \div 86400).  A value that may be absent is a record, so that  *)
(* it can be compared with None, nan and NaT.                              *)
(*                                                                         *)
(* Spec is the dashboard: one session, whose script runs once per user     *)
(* interaction and once more after st.rerun().  A script run loads the     *)
(* table, filters it and renders the selected page (Overview, Global Map,  *)
(* Trends, Country Analysis, Data Explorer or Settings); what the page     *)
(* computes is kept in out.  Its tables have a lookback                    *)
(* of WindowDays days.  SpecPure applies the generator and the filters on  *)
(* their own, the generator with the program's lookback of 365 days.       *)
(* Randomness is a small pseudo-random stream from an arbitrary seed;      *)
(* SpecPure also draws the inputs of the row arithmetic from fixed sets.   *)
(***************************************************************************)
EXTENDS Integers, Sequences, FiniteSets, TLC

VARIABLES
    now,            \* the wall clock, datetime.now()
    rng,            \* state of numpy's global random generator
    cache,          \* the st.cache_data entry of generate_vaccination_data
    session_state,  \* st.session_state: vaccine_data and last_update
    widgets,        \* values of the sidebar widgets: page, dates, countries
    df,             \* main's local df at the end of the last script run
    df_filtered,    \* main's local df_filtered at the end of the last script run
    out,            \* what the last script run did and put on the page
    pc,             \* "rerun" while a script run is pending, else "idle"
    probe           \* argument and result of a function applied on its own

vars == <<now, rng, cache, session_state, widgets, df, df_filtered, out, pc, probe>>

appVars == <<now, rng, cache, session_state, widgets, df, df_filtered, out, pc>>

----------------------------------------------------------------------------
(* Bounds of the model *)

\* length in days of the lookback of the tables the dashboard specification carries
WindowDays == 2

\* modulus of the model's pseudo-random generator
RngMod == 8

\* largest initial state of the pseudo-random generator
MaxSeed == 0

----------------------------------------------------------------------------
(* Program constants *)

LookbackDays == 365
SecondsPerDay == 86400
TTL == 3600
FullyCap == 950
PartialCap == 1000
DefaultStartDays == 180
GridRows == 1000
ForecastPeriods == 30
ForecastStep == 150
ForecastBound == 2000

Min(a, b) == IF a <= b THEN a ELSE b
Max(a, b) == IF a >= b THEN a ELSE b

None == [kind |-> "None"]

countries_generated ==
    <<"USA", "India", "Brazil", "UK", "Germany", "Japan",
      "France", "Italy", "Canada", "Australia", "South Africa", "Mexico">>

countries_sidebar ==
    <<"All Countries", "USA", "India", "Brazil", "UK", "Germany",
      "Japan", "France", "Italy", "Canada", "Australia">>

default_selection == <<"USA", "India", "Brazil", "UK">>

vaccine_types == <<"Pfizer", "Moderna", "AstraZeneca", "Sinovac", "Johnson&Johnson">>

Columns ==
    <<"Date", "Country", "Fully_Vaccinated_Percentage",
      "Partially_Vaccinated_Percentage", "Doses_Administered",
      "Daily_Vaccinations", "Vaccine_Type">>

Pages == {"Overview", "Global Map", "Trends", "Country Analysis",
          "Data Explorer", "Settings"}

Range(s) == {s[i] : i \in 1..Len(s)}

----------------------------------------------------------------------------
(* numpy's global random generator: a stream of states, each draw advances *)
(* the state and maps it into the requested distribution                   *)

NextRand(s) == (5 * s + 3) % RngMod

RECURSIVE IterRand(_, _)
\* the generator state after n draws from state s, one by one
IterRand(s, n) == IF n = 0 THEN s ELSE NextRand(IterRand(s, n - 1))

\* the number of draws after which every state of the generator comes back
RandPeriod ==
    CHOOSE k \in 1..(RngMod * RngMod) :
        /\ \A s \in 0..(RngMod - 1) : IterRand(s, k) = s
        /\ \A j \in 1..(k - 1) : \E s \in 0..(RngMod - 1) : IterRand(s, j) /= s

\* the generator state after n draws from state s
SkipRand(s, n) == IterRand(s, n % RandPeriod)

\* np.random.randint(lo, hi): an integer in lo..hi-1
RandInt(s, lo, hi) == lo + ((7 * s) % (hi - lo))

\* np.random.normal(0, 2), in tenths: unbounded, so the extremes are drawn too
NoiseValues == <<0, -25, 13, 400, -7, -1000, 31, 2>>

RandNormal(s) == NoiseValues[(s % Len(NoiseValues)) + 1]

\* int(np.random.uniform(lo, hi)): an integer in lo..hi-1
RandUniformInt(s, lo, hi) == lo + (((hi - lo) \div RngMod) * (s % RngMod))

\* np.random.choice(vaccine_types, p=[0.4, 0.3, 0.15, 0.1, 0.05])
RandChoice(s) ==
    LET u == (100 * (s % RngMod)) \div RngMod
    IN  IF u < 40 THEN vaccine_types[1]
        ELSE IF u < 70 THEN vaccine_types[2]
        ELSE IF u < 85 THEN vaccine_types[3]
        ELSE IF u < 95 THEN vaccine_types[4]
        ELSE vaccine_types[5]

----------------------------------------------------------------------------
(* generate_vaccination_data *)

\* a daily range that leaves its end out
DateRangeLeftOpenEnd(start, end) ==
    [k \in 1..((end - start) \div SecondsPerDay) |-> start + (k - 1) * SecondsPerDay]

\* pd.date_range(start, end, freq='D'): start, start + 1 day, ... while <= end
DateRange(start, end) ==
    IF end < start THEN <<>>
    ELSE [k \in 1..(((end - start) \div SecondsPerDay) + 1) |->
              start + (k - 1) * SecondsPerDay]

\* lines 142-149 without the cap of the fully vaccinated percentage
VaccinationRatesFloorFirst(base_rate, days_from_start, noise, r) ==
    LET fully_vaccinated == Max(0, base_rate * 10 + days_from_start + noise)
        partially_vaccinated == Max(0, fully_vaccinated + r * 10)
    IN  [Fully_Vaccinated_Percentage |-> fully_vaccinated,
         Partially_Vaccinated_Percentage |-> Min(PartialCap, partially_vaccinated)]

\* lines 137-149: the two percentages of one row
VaccinationRates(base_rate, days_from_start, noise, r) ==
    LET trend == days_from_start
        fully_vaccinated == Min(FullyCap, base_rate * 10 + trend + noise)
        partially_vaccinated == Min(PartialCap, fully_vaccinated + r * 10)
    IN  [Fully_Vaccinated_Percentage |-> Max(0, fully_vaccinated),
         Partially_Vaccinated_Percentage |-> Max(0, partially_vaccinated)]

\* lines 126-133: the base rate of a country and the generator state after it
BaseRate(country, s) ==
    IF country = "USA" THEN [base_rate |-> 75, rng |-> s]
    ELSE IF country = "India" THEN [base_rate |-> 65, rng |-> s]
    ELSE IF country = "Brazil" THEN [base_rate |-> 70, rng |-> s]
    ELSE [base_rate |-> RandInt(NextRand(s), 60, 85), rng |-> NextRand(s)]

\* lines 135-153: one row; five draws, in the order the code makes them
GenRow(country, base_rate, date, start_date, s) ==
    LET s1 == NextRand(s)
        s2 == NextRand(s1)
        s3 == NextRand(s2)
        s4 == NextRand(s3)
        s5 == NextRand(s4)
        days_from_start == (date - start_date) \div SecondsPerDay
        rates == VaccinationRates(base_rate, days_from_start,
                                  RandNormal(s1), RandInt(s2, 5, 15))
    IN  [row |-> [Date |-> date,
                  Country |-> country,
                  Fully_Vaccinated_Percentage |-> rates.Fully_Vaccinated_Percentage,
                  Partially_Vaccinated_Percentage |-> rates.Partially_Vaccinated_Percentage,
                  Doses_Administered |-> RandUniformInt(s3, 100000, 10000000),
                  Daily_Vaccinations |-> RandUniformInt(s4, 5000, 500000),
                  Vaccine_Type |-> RandChoice(s5)],
         rng |-> s5]

\* the draws made before the base rate of the country at index ci is set:
\* five for each row and one for each base rate that was drawn
DrawsBefore(ci, ndates) ==
    5 * ndates * (ci - 1)
    + Cardinality({j \in 1..(ci - 1) :
                      countries_generated[j] \notin {"USA", "India", "Brazil"}})

\* the row of a country and a date, with the base rate drawn inside the inner loop
GenRowAtRedrawBase(ci, i, dates, start_date, s) ==
    LET at == SkipRand(s, DrawsBefore(ci, Len(dates)) + 5 * (i - 1))
    IN  GenRow(countries_generated[ci], RandInt(NextRand(at), 60, 85), dates[i],
               start_date, at).row

\* lines 124-153: the row the loops make for the country at index ci and the
\* date at index i; it is made after the draws of the rows before it
GenRowAt(ci, i, dates, start_date, s) ==
    LET country == countries_generated[ci]
        b == BaseRate(country, SkipRand(s, DrawsBefore(ci, Len(dates))))
    IN  GenRow(country, b.base_rate, dates[i], start_date,
               SkipRand(b.rng, 5 * (i - 1))).row

\* the loops with an inner loop that stops before the last date
GenRowsSkipLast(dates, start_date, s) ==
    [k \in 1..(Len(countries_generated) * (Len(dates) - 1)) |->
        GenRowAt(((k - 1) \div (Len(dates) - 1)) + 1, ((k - 1) % (Len(dates) - 1)) + 1,
                 dates, start_date, s)]

\* lines 123-153: "for country in countries: for date in dates: data.append"
GenRows(dates, start_date, s) ==
    [k \in 1..(Len(countries_generated) * Len(dates)) |->
        GenRowAt(((k - 1) \div Len(dates)) + 1, ((k - 1) % Len(dates)) + 1,
                 dates, start_date, s)]

\* the body of generate_vaccination_data run at instant t with generator
\* state s and a lookback of `lookback` days
GenerateBody(t, s, lookback) ==
    LET end_date == t
        start_date == end_date - lookback * SecondsPerDay
        dates == DateRange(start_date, end_date)
    IN  [df |-> [kind |-> "DataFrame", columns |-> Columns,
                 rows |-> GenRows(dates, start_date, s)],
         rng |-> SkipRand(s, DrawsBefore(Len(countries_generated) + 1, Len(dates)))]

----------------------------------------------------------------------------
(* The filters of main, lines 250-256 *)

\* the country filter without the test for an empty selection
CountryFilterNoEmptyTest(d, selected_countries) ==
    IF "All Countries" \notin Range(selected_countries)
    THEN LET Keep(r) == r.Country \in Range(selected_countries)
         IN  [d EXCEPT !.rows = SelectSeq(d.rows, Keep)]
    ELSE d

\* the country filter without the test for the sentinel
CountryFilterIgnoreSentinel(d, selected_countries) ==
    IF selected_countries /= <<>>
    THEN LET Keep(r) == r.Country \in Range(selected_countries)
         IN  [d EXCEPT !.rows = SelectSeq(d.rows, Keep)]
    ELSE d

\* lines 251-252
CountryFilter(d, selected_countries) ==
    IF "All Countries" \notin Range(selected_countries) /\ selected_countries /= <<>>
    THEN LET Keep(r) == r.Country \in Range(selected_countries)
         IN  [d EXCEPT !.rows = SelectSeq(d.rows, Keep)]
    ELSE d

\* df['Date'].dt.date
DateOf(ts) == ts \div SecondsPerDay

\* the date filter with an exclusive upper bound
DateFilterExclusiveEnd(d, start_date, end_date) ==
    LET Keep(r) == DateOf(r.Date) >= start_date /\ DateOf(r.Date) < end_date
    IN  [d EXCEPT !.rows = SelectSeq(d.rows, Keep)]

\* lines 255-256
DateFilter(d, start_date, end_date) ==
    LET mask(r) == DateOf(r.Date) >= start_date /\ DateOf(r.Date) <= end_date
    IN  [d EXCEPT !.rows = SelectSeq(d.rows, mask)]

\* DataFrame.head(n)
Head_(d, n) == [d EXCEPT !.rows = SubSeq(d.rows, 1, Min(n, Len(d.rows)))]

----------------------------------------------------------------------------
(* Text: a string is a sequence of characters; a name of the program       *)
(* (a column, a country, a vaccine) is one token of it                     *)

DigitChars == <<"0", "1", "2", "3", "4", "5", "6", "7", "8", "9">>

DigitChar(n) == DigitChars[n + 1]

IsDigit(c) == c \in Range(DigitChars)

DigitVal(c) == CHOOSE n \in 0..9 : DigitChars[n + 1] = c

RECURSIVE Pow10(_)
Pow10(k) == IF k = 0 THEN 1 ELSE 10 * Pow10(k - 1)

\* "%0wd"
Pad(n, w) == [i \in 1..w |-> DigitChar((n \div Pow10(w - i)) % 10)]

RECURSIVE NatDigits(_)
\* str(n) for n >= 0
NatDigits(n) ==
    IF n < 10 THEN <<DigitChar(n)>>
    ELSE NatDigits(n \div 10) \o <<DigitChar(n % 10)>>

RECURSIVE ParseNat(_)
\* int(text) for a text of digits
ParseNat(t) ==
    IF Len(t) = 0 THEN 0
    ELSE 10 * ParseNat(SubSeq(t, 1, Len(t) - 1)) + DigitVal(t[Len(t)])

\* the proleptic Gregorian date of a day number
CivilFromDays(days) ==
    LET z == days + 719468
        era == z \div 146097
        doe == z - era * 146097
        yoe == (doe - doe \div 1460 + doe \div 36524 - doe \div 146096) \div 365
        doy == doe - (365 * yoe + yoe \div 4 - yoe \div 100)
        mp == (5 * doy + 2) \div 153
        m == IF mp < 10 THEN mp + 3 ELSE mp - 9
    IN  [year |-> yoe + era * 400 + (IF m <= 2 THEN 1 ELSE 0),
         month |-> m,
         day |-> doy - (153 * mp + 2) \div 5 + 1]

\* the day number of a proleptic Gregorian date
DaysFromCivil(year, month, day) ==
    LET y == IF month <= 2 THEN year - 1 ELSE year
        era == y \div 400
        yoe == y - era * 400
        mp == IF month > 2 THEN month - 3 ELSE month + 9
        doy == (153 * mp + 2) \div 5 + day - 1
        doe == yoe * 365 + yoe \div 4 - yoe \div 100 + doy
    IN  era * 146097 + doe - 719468

\* strftime('%Y%m%d')
StrfYmd(ts) ==
    LET c == CivilFromDays(DateOf(ts))
    IN  Pad(c.year, 4) \o Pad(c.month, 2) \o Pad(c.day, 2)

\* strftime("%Y-%m-%d %H:%M:%S"), also the text of a Timestamp in a CSV cell
StrfDateTime(ts) ==
    LET c == CivilFromDays(DateOf(ts))
        sod == ts % SecondsPerDay
    IN  Pad(c.year, 4) \o <<"-">> \o Pad(c.month, 2) \o <<"-">> \o Pad(c.day, 2)
        \o <<" ">> \o Pad(sod \div 3600, 2) \o <<":">> \o Pad((sod \div 60) % 60, 2)
        \o <<":">> \o Pad(sod % 60, 2)

\* pd.to_datetime of such a text
ParseDateTime(t) ==
    DaysFromCivil(ParseNat(SubSeq(t, 1, 4)), ParseNat(SubSeq(t, 6, 7)),
                  ParseNat(SubSeq(t, 9, 10))) * SecondsPerDay
    + ParseNat(SubSeq(t, 12, 13)) * 3600 + ParseNat(SubSeq(t, 15, 16)) * 60
    + ParseNat(SubSeq(t, 18, 19))

\* repr of a float held in tenths
FloatText(v) == NatDigits(v \div 10) \o <<".">> \o <<DigitChar(v % 10)>>

----------------------------------------------------------------------------
(* DataFrame.to_csv(index=False), line 648, and the reading of its text    *)

FloatColumns == {"Fully_Vaccinated_Percentage", "Partially_Vaccinated_Percentage"}
IntColumns == {"Doses_Administered", "Daily_Vaccinations", "Week"}

\* the text of one cell
CellText(column, v) ==
    IF column = "Date" THEN StrfDateTime(v)
    ELSE IF column \in FloatColumns THEN FloatText(v)
    ELSE IF column \in IntColumns THEN NatDigits(v)
    ELSE <<v>>

RECURSIVE JoinCells(_)
\* ",".join(cells)
JoinCells(cells) ==
    IF Len(cells) = 0 THEN <<>>
    ELSE IF Len(cells) = 1 THEN cells[1]
    ELSE cells[1] \o <<",">> \o JoinCells(Tail(cells))

\* to_csv with index=True: every line starts with the row's position
ToCsvWithIndex(d) ==
    <<JoinCells(<< <<"">> >> \o [i \in 1..Len(d.columns) |-> <<d.columns[i]>>])>>
    \o [k \in 1..Len(d.rows) |->
           JoinCells(<<NatDigits(k - 1)>> \o
                     [i \in 1..Len(d.columns) |->
                         CellText(d.columns[i], d.rows[k][d.columns[i]])])]

\* to_csv(index=False): the header line, then one line per row
ToCsv(d) ==
    <<JoinCells([i \in 1..Len(d.columns) |-> <<d.columns[i]>>])>>
    \o [k \in 1..Len(d.rows) |->
           JoinCells([i \in 1..Len(d.columns) |->
                         CellText(d.columns[i], d.rows[k][d.columns[i]])])]

RECURSIVE SplitCells(_)
\* line.split(",")
SplitCells(line) ==
    IF \A i \in 1..Len(line) : line[i] /= ","
    THEN <<line>>
    ELSE LET p == CHOOSE i \in 1..Len(line) :
                      line[i] = "," /\ \A j \in 1..(i - 1) : line[j] /= ","
         IN  <<SubSeq(line, 1, p - 1)>> \o SplitCells(SubSeq(line, p + 1, Len(line)))

\* the value of a cell, its type inferred from its text
CellValue(t) ==
    IF Len(t) > 0 /\ \A i \in 1..Len(t) : IsDigit(t[i]) THEN ParseNat(t)
    ELSE IF Len(t) = 19 /\ t[5] = "-" /\ t[8] = "-" /\ t[14] = ":" /\ t[17] = ":"
         THEN ParseDateTime(t)
    ELSE IF Len(t) >= 3 /\ t[Len(t) - 1] = "."
            /\ \A i \in (1..Len(t)) \ {Len(t) - 1} : IsDigit(t[i])
         THEN 10 * ParseNat(SubSeq(t, 1, Len(t) - 2)) + DigitVal(t[Len(t)])
    ELSE IF Len(t) = 1 THEN t[1]
    ELSE t

\* pd.read_csv(text, parse_dates=['Date'])
ReadCsv(lines) ==
    LET header == SplitCells(lines[1])
        columns == [i \in 1..Len(header) |-> header[i][1]]
        Index(c) == CHOOSE i \in 1..Len(columns) : columns[i] = c
    IN  [kind |-> "DataFrame",
         columns |-> columns,
         rows |-> [k \in 1..(Len(lines) - 1) |->
                      LET cells == SplitCells(lines[k + 1])
                      IN  [c \in Range(columns) |-> CellValue(cells[Index(c)])]]]

\* pd.to_datetime of a cell: a Timestamp is kept, a text is parsed
to_datetime(v) == IF v \in Int THEN v ELSE ParseDateTime(v)

\* line 254: df['Date'] = pd.to_datetime(df['Date']), the column set on df
SetDate(d) ==
    [d EXCEPT !.rows = [k \in 1..Len(d.rows) |->
                           [d.rows[k] EXCEPT !.Date = to_datetime(@)]]]

----------------------------------------------------------------------------
(* The two caches and the loading of the table *)

\* the instants the model's clock takes: 2025-12-31 10:30:07 and later
StartClock == 20453 * SecondsPerDay + 37807

\* half an hour later (inside the time-to-live) and one time-to-live later
ClockValues == {StartClock, StartClock + 1800, StartClock + TTL}

\* the tables the body returns, by the instant and the generator state it is
\* run with (each is computed once)
GeneratedTables ==
    [t \in ClockValues, s \in 0..(RngMod - 1) |-> GenerateBody(t, s, WindowDays)]

\* a call of generate_vaccination_data(): a live cache entry is returned, else
\* the body runs, and either raises (fail) or returns a table that is cached
CachedGenerate(t, s, c, fail) ==
    IF c /= None /\ t - c.created < TTL
    THEN [status |-> "ok", df |-> c.value, cache |-> c, rng |-> s, source |-> "cache"]
    ELSE IF fail
    THEN [status |-> "raise", df |-> None, cache |-> None, rng |-> s, source |-> "none"]
    ELSE LET g == GeneratedTables[t, s]
         IN  [status |-> "ok", df |-> g.df,
              cache |-> [kind |-> "entry", value |-> g.df, created |-> t],
              rng |-> g.rng, source |-> "body"]

\* fetch_real_vaccination_data, lines 159-171: fail1 is the outcome of the
\* call in the try block, fail2 of the call in the except block
fetch_real_vaccination_data(t, s, c, fail1, fail2) ==
    LET first == CachedGenerate(t, s, c, fail1)
    IN  IF first.status = "ok"
        THEN [first EXCEPT !.status = "ok"] @@ [warning |-> FALSE]
        ELSE CachedGenerate(t, s, first.cache, fail2) @@ [warning |-> TRUE]

----------------------------------------------------------------------------
(* The operations of pandas and of Streamlit that the pages use.  A value  *)
(* that may be None or nan is held as a record: a mean is a float held in  *)
(* hundredths of the unit of its column, rounded down, or nan              *)

nan == [kind |-> "nan"]

Float(hundredths) == [kind |-> "float", hundredths |-> hundredths]

Str(value) == [kind |-> "str", value |-> value]

IndexError == [kind |-> "IndexError"]

NaT == [kind |-> "NaT"]

\* a Timestamp, a result that may be NaT instead
Timestamp(ts) == [kind |-> "Timestamp", value |-> ts]

\* Series.min() of the Date column: NaT for no rows
MinDate(d) ==
    IF d.rows = <<>> THEN NaT
    ELSE Timestamp(CHOOSE x \in {d.rows[k].Date : k \in 1..Len(d.rows)} :
                       \A k \in 1..Len(d.rows) : x <= d.rows[k].Date)

\* Series.max() of the Date column: NaT for no rows
MaxDate(d) ==
    IF d.rows = <<>> THEN NaT
    ELSE Timestamp(CHOOSE x \in {d.rows[k].Date : k \in 1..Len(d.rows)} :
                       \A k \in 1..Len(d.rows) : x >= d.rows[k].Date)

\* Timestamp.date(): the calendar date; NaT.date() is NaT
date_(x) == IF x = NaT THEN NaT ELSE [kind |-> "date", day |-> DateOf(x.value)]

\* the Country keys of a groupby, in the order groupby puts them (sorted)
countries_sorted ==
    <<"Australia", "Brazil", "Canada", "France", "Germany", "India",
      "Italy", "Japan", "Mexico", "South Africa", "UK", "USA">>

RECURSIVE SumTo(_, _, _)
\* the sum of column col over the first n rows
SumTo(rows, col, n) == IF n = 0 THEN 0 ELSE rows[n][col] + SumTo(rows, col, n - 1)

\* Series.sum(): 0 for no rows
Sum(d, col) == SumTo(d.rows, col, Len(d.rows))

\* Series.mean(): nan for no rows
Mean(d, col) ==
    IF d.rows = <<>> THEN nan ELSE Float((100 * Sum(d, col)) \div Len(d.rows))

\* Series.unique(): the values of a column in the order of their first row
unique(d, col) ==
    LET IsFirst(k) == \A j \in 1..(k - 1) : d.rows[j][col] /= d.rows[k][col]
        first == SelectSeq([k \in 1..Len(d.rows) |-> k], IsFirst)
    IN  [i \in 1..Len(first) |-> d.rows[first[i]][col]]

\* Series.nunique()
nunique(d, col) == Cardinality({d.rows[k][col] : k \in 1..Len(d.rows)})

RECURSIVE SortedByDate(_, _)
\* the rows of the dates of a set, the earliest date first; the rows of one
\* date stay in the order they have
SortedByDate(rows, dates) ==
    IF dates = {} THEN <<>>
    ELSE LET m == CHOOSE x \in dates : \A y \in dates : x <= y
             IsM(r) == r.Date = m
         IN  SelectSeq(rows, IsM) \o SortedByDate(rows, dates \ {m})

\* DataFrame.sort_values('Date')
sort_values_Date(d) ==
    [d EXCEPT !.rows = SortedByDate(d.rows, {d.rows[k].Date : k \in 1..Len(d.rows)})]

\* DataFrame.groupby('Country').last().reset_index(): for each country, in
\* the order of the sorted keys, its last row (no cell of the table is null,
\* so the last non-null value of every column is the value of the last row)
groupby_Country_last(d) ==
    LET Present(c) == \E k \in 1..Len(d.rows) : d.rows[k].Country = c
        keys == SelectSeq(countries_sorted, Present)
        Last(c) == CHOOSE k \in 1..Len(d.rows) :
                       /\ d.rows[k].Country = c
                       /\ \A j \in (k + 1)..Len(d.rows) : d.rows[j].Country /= c
    IN  [d EXCEPT !.rows = [i \in 1..Len(keys) |-> d.rows[Last(keys[i])]]]

\* st.selectbox(label, options) when the user has picked the option at
\* `index`: None when there is nothing to pick from
selectbox(options, index) ==
    IF options = <<>> THEN None ELSE Str(options[Min(index, Len(options))])

\* .iloc[0] in the place of .iloc[-1]
iloc_first(rows) == IF rows = <<>> THEN IndexError ELSE rows[1]

\* .iloc[-1]: the last row, IndexError when there is none
iloc_last(rows) == IF rows = <<>> THEN IndexError ELSE rows[Len(rows)]

----------------------------------------------------------------------------
(* The pages of main *)

\* what a page leaves in `out` when it does not set it
BlankPage ==
    [page_error |-> "none",     \* the exception that left the page
     metrics |-> None,          \* Overview: the four key metrics
     latest_data |-> None,      \* Overview: the table of the country comparison
     current_avg_vax |-> None,  \* Trends: the mean the forecast starts from
     forecast_df |-> None,      \* Trends: the table of the projection
     country |-> None,          \* Country Analysis: value of the selectbox
     latest |-> None,           \* Country Analysis: the row of the metrics
     grid |-> None,             \* Data Explorer: the table handed to AgGrid
     csv |-> <<>>,              \* Data Explorer: data of the download button
     file_name |-> <<>>,        \* Data Explorer: file_name of the download button
     info |-> None,             \* Data Explorer: the lines of Data Information
     options |-> <<>>,          \* Settings: the options of the multiselect
     clear_button |-> FALSE]    \* Settings: the Clear Cache button was made

\* lines 258-396, the Overview page
Overview(d) ==
    [BlankPage EXCEPT
        !.metrics = [avg_vax |-> Mean(d, "Fully_Vaccinated_Percentage"),
                     total_doses |-> Sum(d, "Doses_Administered"),
                     daily_avg |-> Mean(d, "Daily_Vaccinations"),
                     countries_count |-> nunique(d, "Country")],
        !.latest_data = groupby_Country_last(sort_values_Date(d))]

\* lines 405-406
countries_geo ==
    <<"USA", "India", "Brazil", "United Kingdom", "Germany",
      "Japan", "France", "Italy", "Canada", "Australia">>

\* lines 398-455, the Global Map page: the generator state after the four
\* draws made for each country of countries_geo (the map shows the draws, and
\* nothing of the table)
GlobalMap(s) == SkipRand(s, 4 * Len(countries_geo))

\* datetime.weekday(): Monday is 0 (1970-01-01 was a Thursday)
Weekday(day) == (day + 3) % 7

\* Series.dt.isocalendar().week: the number, in its year, of the Thursday of
\* the week of the date
isocalendar_week(ts) ==
    LET thursday == DateOf(ts) - Weekday(DateOf(ts)) + 3
    IN  ((thursday - DaysFromCivil(CivilFromDays(thursday).year, 1, 1)) \div 7) + 1

\* line 470: df_filtered['Week'] = ..., a column set on main's df_filtered
WithWeek(d) ==
    [d EXCEPT
        !.columns = IF "Week" \in Range(d.columns) THEN d.columns
                    ELSE Append(d.columns, "Week"),
        !.rows = [k \in 1..Len(d.rows) |->
                     [c \in DOMAIN d.rows[k] \cup {"Week"} |->
                         IF c = "Week" THEN isocalendar_week(d.rows[k].Date)
                         ELSE d.rows[k][c]]]]

\* a float plus a number of hundredths: nan stays nan
FloatAdd(x, hundredths) ==
    IF x = nan THEN nan ELSE Float(x.hundredths + hundredths)

\* np.random.normal(0, 0.5): a quarter of a draw of normal(0, 2), which is in
\* tenths of a percent; in thousandths of a percent
RandNormalHalf(s) == 25 * RandNormal(s)

\* a daily range that starts on the day after its start
forecast_dates_after_end(end_date) ==
    [i \in 1..ForecastPeriods |-> (end_date + i) * SecondsPerDay]

\* line 514: pd.date_range(start=end_date, periods=30, freq='D'), the
\* midnights of end_date and of the 29 days after it
forecast_dates(end_date) ==
    [i \in 1..ForecastPeriods |-> (end_date + i - 1) * SecondsPerDay]

\* lines 515-518: the value at range index i - 1, in thousandths of a percent,
\* made with the i-th draw from generator state s
forecast_value(current_avg_vax, i, s) ==
    FloatAdd(current_avg_vax, (i - 1) * ForecastStep + RandNormalHalf(IterRand(s, i)))

\* lines 520-525: the row of a date and a forecast value v
forecast_row(date, v) ==
    [Date |-> date,
     Forecast |-> v,
     Upper_Bound |-> FloatAdd(v, ForecastBound),
     Lower_Bound |-> FloatAdd(v, 0 - ForecastBound)]

\* lines 514-525
forecast_df(current_avg_vax, end_date, s) ==
    [kind |-> "DataFrame",
     columns |-> <<"Date", "Forecast", "Upper_Bound", "Lower_Bound">>,
     rows |-> [i \in 1..ForecastPeriods |->
                  CHOOSE row \in
                      {forecast_row(forecast_dates(end_date)[i], v) :
                          v \in {forecast_value(current_avg_vax, i, s)}} : TRUE]]

\* lines 457-560, the Trends page: what it shows, df_filtered with the column
\* it has set on it and the generator state after the 30 draws (the weekly
\* and the daily-change tables are charted and dropped)
Trends(d, end_date, s) ==
    CHOOSE page \in
        {[shown |-> [BlankPage EXCEPT
                        !.current_avg_vax = current_avg_vax,
                        !.forecast_df = forecast_df(current_avg_vax, end_date, s)],
          df_filtered |-> WithWeek(d),
          rng |-> SkipRand(s, ForecastPeriods)] :
            current_avg_vax \in {Mean(d, "Fully_Vaccinated_Percentage")}} : TRUE

\* line 570: df_filtered[df_filtered['Country'] == country]
country_data(d, country) ==
    LET IsCountry(r) == country /= None /\ r.Country = country.value
    IN  SelectSeq(d.rows, IsCountry)

\* lines 570-582: the metrics of the country, made from the last row of its
\* rows
CountrySection(country, latest) ==
    IF latest = IndexError
    THEN [BlankPage EXCEPT !.country = country, !.page_error = "IndexError"]
    ELSE [BlankPage EXCEPT !.country = country, !.latest = latest]

\* the Country Analysis page without the test of line 569
CountryAnalysisNoTest(d, index) ==
    CHOOSE page \in
        {CountrySection(country, iloc_last(country_data(d, country))) :
            country \in {selectbox(unique(d, "Country"), index)}} : TRUE

\* lines 562-623, the Country Analysis page: the section is made for the
\* value of the selectbox, if it is one
CountryAnalysis(d, index) ==
    CHOOSE page \in
        {IF country = None THEN BlankPage
         ELSE CountrySection(country, iloc_last(country_data(d, country))) :
            country \in {selectbox(unique(d, "Country"), index)}} : TRUE

\* lines 625-678, the Data Explorer page
DataExplorer(d, t) ==
    [BlankPage EXCEPT
        !.grid = Head_(d, GridRows),
        !.csv = ToCsv(d),
        !.file_name = <<"vaccination_data_">> \o StrfYmd(t) \o <<".csv">>,
        !.info = [rows |-> Len(d.rows),
                  columns |-> Len(d.columns),
                  date_min |-> date_(MinDate(d)),
                  date_max |-> date_(MaxDate(d)),
                  countries |-> nunique(d, "Country")]]

\* st.multiselect(label, options, default=...): the default values are the
\* value of the widget the user has not touched; a default value that is
\* not an option raises StreamlitAPIException
multiselect(options, default) ==
    IF Range(default) \subseteq Range(options) THEN default
    ELSE [kind |-> "StreamlitAPIException"]

\* lines 680-719, the Settings page: the exception of line 702 ends the run
\* before the buttons of lines 713 and 717 are made
Settings(d) ==
    CHOOSE page \in
        {IF multiselect(options, default_selection) = [kind |-> "StreamlitAPIException"]
         THEN [BlankPage EXCEPT !.options = options,
                                !.page_error = "StreamlitAPIException"]
         ELSE [BlankPage EXCEPT !.options = options, !.clear_button = TRUE] :
            options \in {unique(d, "Country")}} : TRUE

\* the page-specific part of main: what the page shows, df_filtered and the
\* random generator as the page leaves them
PageOut(page, d, dff, t, s, end_date, index) ==
    IF page = "Overview"
    THEN [shown |-> Overview(dff), df_filtered |-> dff, rng |-> s]
    ELSE IF page = "Global Map"
    THEN [shown |-> BlankPage, df_filtered |-> dff, rng |-> GlobalMap(s)]
    ELSE IF page = "Trends"
    THEN Trends(dff, end_date, s)
    ELSE IF page = "Country Analysis"
    THEN [shown |-> CountryAnalysis(dff, index), df_filtered |-> dff, rng |-> s]
    ELSE IF page = "Data Explorer"
    THEN [shown |-> DataExplorer(dff, t), df_filtered |-> dff, rng |-> s]
    ELSE [shown |-> Settings(d), df_filtered |-> dff, rng |-> s]

----------------------------------------------------------------------------
(* One run of the script, lines 103-107 and main *)

BlankOut ==
    [error |-> FALSE,       \* an exception left main while it loaded the table
     warning |-> FALSE,     \* st.warning of line 170 was shown
     source |-> "none",     \* where this run's table came from
     pressed |-> "none",    \* the button that ended this run in st.rerun()
     after |-> "none",      \* the button that caused this run
     expired |-> FALSE]     \* the cache entry was past its time-to-live
    @@ BlankPage

\* line 246
LastUpdate(t) == [kind |-> "str", text |-> StrfDateTime(t)]

DefaultWidgets(t) ==
    [selected |-> "Overview",
     start_date |-> DateOf(t) - DefaultStartDays,
     end_date |-> DateOf(t),
     selected_countries |-> default_selection]

\* the dates the user picks in the "From" and in the "To" date input
StartChoices(t) == {DateOf(t) - DefaultStartDays, DateOf(t) - 1, DateOf(t) + 1}

EndChoices(t) == {DateOf(t) - 1, DateOf(t)}

\* the lists the user picks in the multiselect of countries[1:]
SelectionChoices == {<<>>, default_selection, <<"Japan", "Germany">>}

\* the widget values after the user has changed one widget
WidgetChanges(w, t) ==
    (  {[w EXCEPT !.selected = p] : p \in Pages}
    \cup {[w EXCEPT !.start_date = a] : a \in StartChoices(t)}
    \cup {[w EXCEPT !.end_date = b] : b \in EndChoices(t)}
    \cup {[w EXCEPT !.selected_countries = c] : c \in SelectionChoices} ) \ {w}

\* the outcomes of the two calls of the generator a run may make
Outcomes(load) ==
    IF load THEN {<<FALSE, FALSE>>, <<TRUE, FALSE>>, <<TRUE, TRUE>>}
    ELSE {<<FALSE, FALSE>>}

\* the options the user picks in the selectbox of the Country Analysis page:
\* the first one and the last one
Picks(page) == IF page = "Country Analysis" THEN {1, Len(countries_generated)} ELSE {1}

\* the table st.session_state.vaccine_data refers to at the end of a run, if
\* df_filtered were df itself when the mask keeps every row
SessionTableSharedWithFiltered(table, d, dff, selected_countries) ==
    IF "All Countries" \notin Range(selected_countries) /\ selected_countries /= <<>>
    THEN table
    ELSE IF Len(dff.rows) = Len(d.rows) THEN dff ELSE d

\* the table st.session_state.vaccine_data refers to at the end of a run that
\* started with `table` in it: when the country filter is skipped main's df
\* is that very table (lines 245 and 248), so it has the column line 254 has
\* set on df; line 252 and line 256 make new tables, so what is set on
\* df_filtered (the Week column, line 470) is not set on it
SessionTable(table, d, dff, selected_countries) ==
    IF "All Countries" \notin Range(selected_countries) /\ selected_countries /= <<>>
    THEN table
    ELSE d

Script(w, press, fail1, fail2, index) ==
    \E seen \in {[BlankOut EXCEPT
                     !.after = out.pressed,
                     !.expired = (cache /= None /\ now - cache.created >= TTL)]} :
    /\ widgets' = w
    /\ UNCHANGED <<now, probe>>
    /\ IF press = "refresh"
       THEN \* lines 222-224
            /\ session_state' = [session_state EXCEPT !.vaccine_data = None]
            /\ pc' = "rerun"
            /\ df' = None
            /\ df_filtered' = None
            /\ out' = [seen EXCEPT !.pressed = "refresh"]
            /\ UNCHANGED <<rng, cache>>
       ELSE \E load \in {session_state.vaccine_data = None} :
            \E f \in {fetch_real_vaccination_data(now, rng, cache, fail1, fail2)} :
                IF load /\ f.status = "raise"
                THEN \* the exception of line 171 leaves main
                     /\ out' = [seen EXCEPT !.error = TRUE, !.warning = TRUE]
                     /\ pc' = "idle"
                     /\ df' = None
                     /\ df_filtered' = None
                     /\ cache' = f.cache
                     /\ UNCHANGED <<rng, session_state>>
                ELSE LET table == IF load THEN f.df ELSE session_state.vaccine_data
                     IN  \E d \in {SetDate(CountryFilter(table, w.selected_countries))} :
                         \E dff \in {DateFilter(d, w.start_date, w.end_date)} :
                         \E po \in {PageOut(w.selected, d, dff, now,
                                            IF load THEN f.rng ELSE rng,
                                            w.end_date, index)} :
                         \E clear \in {press = "clear" /\ po.shown.clear_button} :
                         /\ df' = d
                         /\ df_filtered' = po.df_filtered
                         /\ rng' = po.rng
                         /\ cache' = IF load THEN f.cache ELSE cache
                         /\ session_state' =
                              [vaccine_data |->
                                   IF clear THEN None
                                   ELSE SessionTable(table, d, po.df_filtered,
                                                     w.selected_countries),
                               last_update |-> IF load THEN LastUpdate(now)
                                               ELSE session_state.last_update]
                         /\ pc' = IF clear THEN "rerun" ELSE "idle"
                         /\ out' = [error |-> FALSE,
                                     warning |-> load /\ f.warning,
                                     source |-> IF load THEN f.source ELSE "session",
                                     pressed |-> IF clear THEN "clear" ELSE "none",
                                     after |-> seen.after,
                                     expired |-> seen.expired] @@ po.shown

\* the user changes a sidebar widget; the script runs with the new values
Interact ==
    /\ pc = "idle"
    /\ \E w \in WidgetChanges(widgets, now),
          o \in Outcomes(session_state.vaccine_data = None) :
          \E index \in Picks(w.selected) : Script(w, "none", o[1], o[2], index)

\* the user presses "Refresh Data" in the sidebar
PressRefresh ==
    /\ pc = "idle"
    /\ Script(widgets, "refresh", FALSE, FALSE, 1)

\* the user presses "Clear Cache" on the Settings page
PressClearCache ==
    /\ pc = "idle"
    /\ widgets.selected = "Settings"
    /\ out.clear_button
    /\ \E o \in Outcomes(session_state.vaccine_data = None) :
          Script(widgets, "clear", o[1], o[2], 1)

\* the run that st.rerun() or the opening of the session has scheduled
Rerun ==
    /\ pc = "rerun"
    /\ \E o \in Outcomes(session_state.vaccine_data = None),
          index \in Picks(widgets.selected) :
          Script(widgets, "none", o[1], o[2], index)

\* time passes
Tick ==
    /\ pc = "idle"
    /\ \E t \in ClockValues : t > now /\ now' = t
    /\ UNCHANGED <<rng, cache, session_state, widgets, df, df_filtered, out, pc, probe>>

Init ==
    /\ now = StartClock
    /\ rng \in 0..MaxSeed
    /\ cache = None
    /\ session_state = [vaccine_data |-> None, last_update |-> None]
    /\ widgets = DefaultWidgets(StartClock)
    /\ df = None
    /\ df_filtered = None
    /\ out = BlankOut
    /\ pc = "rerun"
    /\ probe = [kind |-> "none"]

Next ==
    \/ Interact
    \/ PressRefresh
    \/ PressClearCache
    \/ Rerun
    \/ Tick

Spec == Init /\ [][Next]_vars

TypeOK ==
    /\ now \in ClockValues
    /\ rng \in 0..(RngMod - 1)
    /\ pc \in {"idle", "rerun"}
    /\ widgets.selected \in Pages

----------------------------------------------------------------------------
(* The functions of the program applied on their own, to inputs drawn from *)
(* bounded sets; the generator runs here with the program's 365 days       *)

ProbeBaseRates == {60, 65, 70, 75, 84}

ProbeNoise == Range(NoiseValues)

ProbeR == {5, 9, 14}

ProbeSelections == SelectionChoices \cup {<<"All Countries">>, <<"All Countries", "USA">>}

\* lines 137-149 for one base rate, day offset and pair of draws
ProbeRates ==
    /\ probe.kind = "none"
    /\ \E base_rate \in ProbeBaseRates, days_from_start \in 0..LookbackDays,
          noise \in ProbeNoise, r \in ProbeR :
          probe' = [kind |-> "rates", base_rate |-> base_rate,
                    days_from_start |-> days_from_start, noise |-> noise, r |-> r,
                    result |-> VaccinationRates(base_rate, days_from_start, noise, r)]
    /\ UNCHANGED appVars

\* the body of generate_vaccination_data at an instant and a generator state
ProbeGenerate ==
    /\ probe.kind = "none"
    /\ \E t \in {StartClock, StartClock + 1800}, s \in 0..MaxSeed :
          probe' = [kind |-> "table", now |-> t, seed |-> s,
                    df |-> GenerateBody(t, s, LookbackDays).df]
    /\ UNCHANGED appVars

\* lines 251-252 for a selection, the sentinel included
ProbeCountryFilter ==
    /\ probe.kind = "none"
    /\ \E sel \in ProbeSelections, s \in 0..MaxSeed :
          LET table == GeneratedTables[StartClock, s].df
          IN  probe' = [kind |-> "filter", selected_countries |-> sel, df |-> table,
                        result |-> CountryFilter(table, sel)]
    /\ UNCHANGED appVars

NextPure ==
    \/ ProbeRates
    \/ ProbeGenerate
    \/ ProbeCountryFilter

SpecPure == Init /\ [][NextPure]_vars

----------------------------------------------------------------------------
(* Properties *)

IsTable(d) == d /= None

RowSet(d) == Range(d.rows)

\* the rows of a table on the generated columns: the Trends page adds a column
\* 'Week' to df_filtered (line 470) after the filters have chosen its rows
GeneratedRowSet(d) == {[c \in Range(Columns) |-> r[c]] : r \in Range(d.rows)}

DistinctDates(d) == {d.rows[k].Date : k \in 1..Len(d.rows)}

RatesWithinBounds(r) ==
    /\ 0 <= r.Fully_Vaccinated_Percentage
    /\ r.Fully_Vaccinated_Percentage <= 950
    /\ r.Fully_Vaccinated_Percentage <= r.Partially_Vaccinated_Percentage
    /\ r.Partially_Vaccinated_Percentage <= 1000

\* C1: every generated row has 0 <= fully <= 95 and fully <= partially <= 100,
\* whatever the base rate, the day offset and the draws (checked for every
\* probed combination and for every row of the 365-day tables)
C1_RatesWithinBounds ==
    /\ probe.kind = "rates" => RatesWithinBounds(probe.result)
    /\ probe.kind = "table" =>
          \A k \in 1..Len(probe.df.rows) : RatesWithinBounds(probe.df.rows[k])

\* a noise far below zero: both percentages are floored at 0
C1_Witness ==
    /\ probe.kind = "rates"
    /\ probe.base_rate * 10 + probe.days_from_start + probe.noise < -150
    /\ probe.result.Fully_Vaccinated_Percentage = 0
    /\ probe.result.Partially_Vaccinated_Percentage = 0

\* C6 as stated: the generated table has exactly 365 distinct dates, the last
\* of them the current date
C6_Exactly365Dates ==
    probe.kind = "table" =>
        /\ Cardinality(DistinctDates(probe.df)) = 365
        /\ \A d \in DistinctDates(probe.df) : d <= probe.now
        /\ probe.now \in DistinctDates(probe.df)

\* C6 amended: the generated table has exactly 366 distinct dates, one per day
\* from the instant 365 days before the current one up to the current instant,
\* both included; the last is the current date
C6_Exactly366Dates ==
    probe.kind = "table" =>
        /\ Cardinality(DistinctDates(probe.df)) = 366
        /\ Cardinality({DateOf(d) : d \in DistinctDates(probe.df)}) = 366
        /\ \A d \in DistinctDates(probe.df) :
              probe.now - 365 * 86400 <= d /\ d <= probe.now
        /\ probe.now \in DistinctDates(probe.df)
        /\ (probe.now - 365 * 86400) \in DistinctDates(probe.df)

\* the body has run with the 365-day lookback
C6_Witness ==
    /\ probe.kind = "table"
    /\ \E k \in 1..Len(probe.df.rows) : probe.df.rows[k].Date = probe.now

\* C7: the row count is (number of countries) x (number of days in the window)
\* and every (country, day) pair of the 12 countries and the window's days is
\* in exactly one row
C7_OneRowPerCountryAndDay ==
    probe.kind = "table" =>
        LET rows == probe.df.rows
            days == DateRange(probe.now - LookbackDays * SecondsPerDay, probe.now)
            pairs == {<<rows[k].Country, rows[k].Date>> : k \in 1..Len(rows)}
        IN  /\ Len(rows) = Len(countries_generated) * Len(days)
            /\ pairs = Range(countries_generated) \X Range(days)
            /\ Cardinality(pairs) = Len(rows)

\* the 12 x 366 rows of a 365-day table
C7_Witness ==
    /\ probe.kind = "table"
    /\ Len(probe.df.rows) = 12 * 366
    /\ probe.df.rows[Len(probe.df.rows)].Country = "Mexico"

\* C5: when the selected list contains 'All Countries' the country filter
\* returns the table unchanged
C5_SentinelIsNoOp ==
    (probe.kind = "filter" /\ "All Countries" \in Range(probe.selected_countries))
        => probe.result = probe.df

\* the sentinel next to a country: rows of other countries are kept
C5_Witness ==
    /\ probe.kind = "filter"
    /\ probe.selected_countries = <<"All Countries", "USA">>
    /\ \E k \in 1..Len(probe.result.rows) : probe.result.rows[k].Country = "Mexico"

\* C2 as stated: a run that follows a press of Refresh Data or Clear Cache, or
\* that starts with the cache entry past its time-to-live, shows a table the
\* generator body has just made
C2_RegeneratedOnExpiryOrPress ==
    (IsTable(df) /\ (out.after \in {"refresh", "clear"} \/ out.expired))
        => out.source = "body"

\* C3 as stated: for every selection, the empty one included, df_filtered has
\* only rows whose Country is in the selected list
C3_OnlySelectedCountries ==
    IsTable(df_filtered) =>
        \A k \in 1..Len(df_filtered.rows) :
            df_filtered.rows[k].Country \in Range(widgets.selected_countries)

\* C3 amended: for every non-empty selection df_filtered has only rows whose
\* Country is in the selected list; for the empty selection the country filter
\* is skipped, and df holds the rows of all 12 generated countries
C3_OnlySelectedUnlessEmpty ==
    IsTable(df_filtered) =>
        /\ widgets.selected_countries /= <<>> =>
              \A k \in 1..Len(df_filtered.rows) :
                  df_filtered.rows[k].Country \in Range(widgets.selected_countries)
        /\ widgets.selected_countries = <<>> =>
              /\ {df.rows[k].Country : k \in 1..Len(df.rows)} = Range(countries_generated)
              /\ GeneratedRowSet(df_filtered) \subseteq RowSet(df)

\* a selection that is not the default one has filtered the table
C3_Witness ==
    /\ IsTable(df_filtered)
    /\ widgets.selected_countries = <<"Japan", "Germany">>
    /\ {df_filtered.rows[k].Country : k \in 1..Len(df_filtered.rows)}
          = {"Japan", "Germany"}

\* C4: for every date range [a, b], a > b included, df_filtered has exactly the
\* rows of the country-filtered table whose calendar date d has a <= d <= b
C4_ExactlyRowsInRange ==
    IsTable(df_filtered) =>
        LET InRange(r) == /\ widgets.start_date <= r.Date \div 86400
                          /\ r.Date \div 86400 <= widgets.end_date
        IN  /\ GeneratedRowSet(df_filtered) = {r \in RowSet(df) : InRange(r)}
            /\ Len(df_filtered.rows) = Cardinality(GeneratedRowSet(df_filtered))

\* a range of one day, so that each bound is met by a kept row, and rows of
\* other days are dropped
C4_Witness ==
    /\ IsTable(df_filtered)
    /\ widgets.start_date = widgets.end_date
    /\ Len(df_filtered.rows) > 0
    /\ Len(df_filtered.rows) < Len(df.rows)

\* C8 as stated: whenever the guarded call fails (the warning is shown), the
\* function still returns a table and no exception reaches main
C8_FetchNeverPropagates ==
    out.warning => (~out.error /\ IsTable(df))

C10_BaseRates(country) ==
    IF country = "USA" THEN {75}
    ELSE IF country = "India" THEN {65}
    ELSE IF country = "Brazil" THEN {70}
    ELSE 60..85

\* C10: for every country there is one base rate (75, 65, 70 for USA, India,
\* Brazil, a value in [60, 85] for the others) such that every row of the
\* country at day offset d has fully = max(0, min(95, base + 0.1 d + noise))
\* and partially = max(0, min(100, min(95, base + 0.1 d + noise) + r)) for a
\* noise and an r in [5, 15)
C10_RatesFollowFormula ==
    probe.kind = "table" =>
        LET first == probe.now - 365 * 86400
        IN  \A c \in Range(countries_generated) :
              LET rows == {r \in RowSet(probe.df) : r.Country = c}
              IN  \E base \in C10_BaseRates(c) :
                    \A row \in rows :
                      \E noise \in Range(NoiseValues), r \in 5..14 :
                        LET d == (row.Date - first) \div 86400
                            capped == Min(950, base * 10 + d + noise)
                        IN  /\ row.Fully_Vaccinated_Percentage = Max(0, capped)
                            /\ row.Partially_Vaccinated_Percentage
                                  = Max(0, Min(1000, capped + r * 10))

\* a generated table with a row capped at 95, a row floored at 0 and, between
\* them, a row of a country whose base rate is drawn
C10_Witness ==
    /\ probe.kind = "table"
    /\ \E row \in RowSet(probe.df) : row.Fully_Vaccinated_Percentage = 950
    /\ \E row \in RowSet(probe.df) : row.Fully_Vaccinated_Percentage = 0
    /\ \E row \in RowSet(probe.df) :
          /\ row.Country = "Mexico"
          /\ row.Fully_Vaccinated_Percentage \in 1..949
          /\ row.Date > probe.now - 365 * 86400

\* the rows of country c in table d whose Date no other row of c exceeds
MaxDateRows(d, c) ==
    {r \in RowSet(d) :
        /\ r.Country = c
        /\ \A q \in RowSet(d) : q.Country = c => q.Date <= r.Date}

\* C11: for every country present in df_filtered, the Country Comparison row
\* of the Overview page and the 'latest' row of the Country Analysis page are
\* the one row of that country with the greatest Date in df_filtered
C11_LatestIsMaxDate ==
    /\ out.latest_data /= None =>
          /\ {out.latest_data.rows[k].Country : k \in 1..Len(out.latest_data.rows)}
                = {r.Country : r \in RowSet(df_filtered)}
          /\ \A k \in 1..Len(out.latest_data.rows) :
                MaxDateRows(df_filtered, out.latest_data.rows[k].Country)
                    = {out.latest_data.rows[k]}
    /\ out.latest /= None =>
          MaxDateRows(df_filtered, out.country.value) = {out.latest}
    /\ IsTable(df_filtered) =>
          \A index \in 1..Len(unique(df_filtered, "Country")) :
              LET page == CountryAnalysis(df_filtered, index)
              IN  MaxDateRows(df_filtered, page.country.value) = {page.latest}

\* the Country Analysis page shows the last country of a table in which
\* every country has rows of several dates
C11_Witness ==
    /\ widgets.selected = "Country Analysis"
    /\ out.latest /= None
    /\ out.country = Str("UK")
    /\ \E r \in RowSet(df_filtered) : r.Country = "UK" /\ r.Date < out.latest.Date
    /\ \E r \in RowSet(df_filtered) : r.Country = "USA" /\ r.Date = out.latest.Date

\* C12 as stated: the forecast has exactly 30 daily points starting at the
\* selected end date, point i (i = 0..29) has the value (mean
\* Fully_Vaccinated_Percentage of df_filtered) + 0.15 i, and every point has
\* Upper_Bound - Forecast = Forecast - Lower_Bound = 2
C12_FixedLinearForecast ==
    out.forecast_df /= None =>
        LET rows == out.forecast_df.rows
            mean == Mean(df_filtered, "Fully_Vaccinated_Percentage")
        IN  /\ Len(rows) = 30
            /\ \A i \in 1..Len(rows) :
                  /\ rows[i].Date = (widgets.end_date + i - 1) * 86400
                  /\ mean /= nan
                  /\ rows[i].Forecast = Float(mean.hundredths + 150 * (i - 1))
                  /\ rows[i].Upper_Bound /= nan
                  /\ rows[i].Lower_Bound /= nan
                  /\ rows[i].Upper_Bound.hundredths - rows[i].Forecast.hundredths = 2000
                  /\ rows[i].Forecast.hundredths - rows[i].Lower_Bound.hundredths = 2000

\* C12 amended: the forecast has exactly 30 daily points starting at the
\* selected end date; when df_filtered has rows, point i (i = 0..29) has the
\* value (mean Fully_Vaccinated_Percentage of df_filtered) + 0.15 i + e, e a
\* draw of normal(0, 0.5), and Upper_Bound - Forecast = Forecast - Lower_Bound
\* = 2; when df_filtered has no rows the three values of every point are nan
C12_NoisyLinearForecast ==
    out.forecast_df /= None =>
        LET rows == out.forecast_df.rows
            mean == Mean(df_filtered, "Fully_Vaccinated_Percentage")
        IN  /\ Len(rows) = 30
            /\ \A i \in 1..Len(rows) :
                  /\ rows[i].Date = (widgets.end_date + i - 1) * 86400
                  /\ df_filtered.rows = <<>> =>
                        /\ rows[i].Forecast = nan
                        /\ rows[i].Upper_Bound = nan
                        /\ rows[i].Lower_Bound = nan
                  /\ df_filtered.rows /= <<>> =>
                        /\ \E z \in Range(NoiseValues) :
                              rows[i].Forecast
                                  = Float(mean.hundredths + 150 * (i - 1) + 25 * z)
                        /\ rows[i].Upper_Bound = Float(rows[i].Forecast.hundredths + 2000)
                        /\ rows[i].Lower_Bound = Float(rows[i].Forecast.hundredths - 2000)

\* the Trends page has made a forecast from a table with rows, and a point
\* of it is off the line by its draw
C12_Witness ==
    /\ widgets.selected = "Trends"
    /\ out.forecast_df /= None
    /\ df_filtered.rows /= <<>>
    /\ out.forecast_df.rows[1].Forecast.hundredths = out.current_avg_vax.hundredths
    /\ \E i \in 2..30 :
          out.forecast_df.rows[i].Forecast.hundredths
              > out.current_avg_vax.hundredths + 150 * (i - 1)

\* C13: a run that leaves df_filtered empty on the Overview, Trends, Country
\* Analysis or Data Explorer page ends without an exception of the page; the
\* aggregates are the defaults of the library (nan for a mean, 0 for a sum
\* and for a count, NaT for the first and the last date) and the Country
\* Analysis page makes no per-country section
C13_NoFatalPathOnEmpty ==
    (/\ IsTable(df_filtered)
     /\ df_filtered.rows = <<>>
     /\ widgets.selected \in {"Overview", "Trends", "Country Analysis", "Data Explorer"})
        => /\ out.page_error = "none"
           /\ widgets.selected = "Overview" =>
                 /\ out.metrics = [avg_vax |-> nan, total_doses |-> 0,
                                   daily_avg |-> nan, countries_count |-> 0]
                 /\ out.latest_data.rows = <<>>
           /\ widgets.selected = "Trends" =>
                 /\ out.current_avg_vax = nan
                 /\ Len(out.forecast_df.rows) = 30
           /\ widgets.selected = "Country Analysis" =>
                 /\ out.country = None
                 /\ out.latest = None
           /\ widgets.selected = "Data Explorer" =>
                 /\ out.grid.rows = <<>>
                 /\ Len(out.csv) = 1
                 /\ out.info.rows = 0
                 /\ out.info.countries = 0
                 /\ out.info.date_min = NaT
                 /\ out.info.date_max = NaT

\* the Country Analysis page of a range whose start is after its end
C13_Witness ==
    /\ widgets.selected = "Country Analysis"
    /\ widgets.start_date > widgets.end_date
    /\ IsTable(df_filtered)
    /\ df_filtered.rows = <<>>
    /\ Len(df.rows) > 0
    /\ out.country = None
    /\ out.page_error = "none"

\* C14: a run that starts with a table in st.session_state.vaccine_data and
\* in which neither Refresh Data nor Clear Cache is pressed leaves the session
\* table (its columns, rows and values) and last_update as they were,
\* whatever the page, the date range and the selection; the session table
\* gets no Week column and loses no row
C14_RenderKeepsSession ==
    [][(session_state.vaccine_data /= None /\ out'.pressed = "none")
          => /\ session_state' = session_state
             /\ "Week" \notin Range(session_state'.vaccine_data.columns)]_vars

\* the Trends page made from the session table with no country selected:
\* main's df is the session table, df_filtered has the Week column
C14_Witness ==
    /\ widgets.selected = "Trends"
    /\ widgets.selected_countries = <<>>
    /\ out.source = "session"
    /\ IsTable(df_filtered)
    /\ "Week" \in Range(df_filtered.columns)
    /\ Len(df_filtered.rows) = Len(df.rows)
    /\ session_state.vaccine_data = df

\* C15 as stated: a press of Refresh Data or Clear Cache sets vaccine_data to
\* None and restarts the run; the restarted run loads a table and sets
\* last_update to the time of the load; every run that ends without a press
\* and without an exception leaves vaccine_data and last_update set, and
\* last_update is None only while no load has been made
C15_PressThenReload ==
    [][/\ (out.pressed = "none" /\ out'.pressed /= "none")
            => (session_state'.vaccine_data = None /\ pc' = "rerun")
       /\ (out.pressed /= "none" /\ pc = "rerun" /\ pc' = "idle")
            => /\ session_state'.vaccine_data /= None
               /\ session_state'.last_update = LastUpdate(now)
               /\ out'.source \in {"cache", "body"}
       /\ (pc' = "idle" /\ ~out'.error /\ out'.page_error = "none")
            => /\ session_state'.vaccine_data /= None
               /\ session_state'.last_update /= None
       /\ (session_state'.last_update = None)
            => session_state'.vaccine_data = None]_vars

\* C16 as stated: on the Settings page, whatever the sidebar selection, the
\* default values USA, India, Brazil and UK are all among the options of the
\* multiselect, and the widget is made without an exception
C16_DefaultsAmongOptions ==
    (widgets.selected = "Settings" /\ IsTable(df)) =>
        /\ {"USA", "India", "Brazil", "UK"} \subseteq Range(out.options)
        /\ out.page_error = "none"

====
